---- MODULE Spec2Model ----
(***************************************************************************)
(* Model of the cashu-lsp quote lifecycle: the HTTP handlers of            *)
(* src/src/lsp_server.rs (get_lsp_info, post_channel_quote,                *)
(* get_quote_state, post_receive_payment) running concurrently on the      *)
(* multi-threaded runtime built in src/src/bin/cdk-ldk-node.rs, over the   *)
(* quote store (crate::db::Db), the ecash wallet and the Lightning node.   *)
(***************************************************************************)
EXTENDS Integers, Sequences, FiniteSets, TLC

VARIABLES
    cashu_lsp_info,  \* CashuLspState.cashu_lsp_info, fixed at start-up
    db,              \* the quote store: quote id -> QuoteInfo
    next_uuid,       \* number of ids Uuid::new_v4 has handed out
    channels,        \* the node's channels, as returned by list_channels
    pc,              \* position of each post_receive_payment invocation
    req,             \* payload of each post_receive_payment invocation
    quote,           \* the handler's local `quote` (lines 303, 364)
    opened,          \* the handler's local `open_channel` result (line 380)
    last,            \* the last response the server produced
    redeemed,        \* per quote id: number of successful receive_proofs calls
    opens,           \* per quote id: number of open_announced_channel calls
    handles,         \* per quote id: the handles open_announced_channel returned
    main,            \* position of main() in cdk-ldk-node.rs
    signals          \* number of ctrl-c signals the process has received

vars == <<cashu_lsp_info, db, next_uuid, channels, pc, req, quote, opened,
          last, redeemed, opens, handles, main, signals>>

-----------------------------------------------------------------------------
(* Bounds of the model *)

\* number of post_receive_payment invocations that may be in flight at once
NumHandlers == 2
\* number of quote ids Uuid::new_v4 hands out
MaxQuotes == 2
\* number of successful redemptions in a behaviour
MaxRedeemed == 2
\* width in bits of the model's u64
Width == 21
\* number of ctrl-c signals the process may receive
MaxSignals == 2

U64_MAX == 2 ^ Width - 1

Procs == 1 .. NumHandlers
Uuids == 1 .. MaxQuotes

-----------------------------------------------------------------------------
(* Option<T> and Result<T, E> *)

None == << >>
Some(x) == << x >>
IsSome(o) == o # None
Unwrap(o) == o[1]

-----------------------------------------------------------------------------
(* Values of the types in src/src/types.rs and of the request payloads *)

\* the ChannelId the node gives the channel it created under a user_channel_id
ExternalId(user_channel_id) == << "channel", user_channel_id >>

QuoteState == {"Unpaid", "Paid", "ChannelPending", "ChannelOpen", "ChannelExpired"}

Mints == {"mintA", "mintB"}
PublicKeys == {"pkA"}
SocketAddresses == {"addrA"}

\* CashuLspInfo values the configuration file may give
CashuLspInfo ==
    { [min_channel_size_sat |-> 1000, max_channel_size_sat |-> 3000,
       accepted_mints |-> {"mintA"}, min_fee |-> 2, fee_ppk |-> 1] }

\* the wallets main() creates: one per accepted mint
Wallets(info) == info.accepted_mints

\* ChannelQuoteRequest bodies: a size below the minimum, above the maximum,
\* at the minimum and at the maximum, with and without a push amount
Request(size, push) ==
    [channel_size_sats |-> size, node_pubkey |-> "pkA", addr |-> "addrA",
     push_amount |-> push]

ChannelQuoteRequest ==
    { Request(999, None), Request(3001, None), Request(1000, None),
      Request(3000, Some(2)) }

\* the text of a quote id, and text that is no uuid
UuidText(id) == << "uuid", id >>
IdStrings == {UuidText(id) : id \in Uuids} \cup { << "not-a-uuid" >> }

\* Uuid::from_str
Uuid_from_str(s) == IF Len(s) = 2 /\ s[1] = "uuid" THEN Some(s[2]) ELSE None

\* proofs of a payload: the sequence of their amounts. A payer who holds the
\* payment request of a quote pays exactly, underpays, overpays or sends
\* amounts whose sum leaves the u64 range.
ProofsFor(expected) ==
    { << expected >>, << expected - 1 >>, << expected, 1 >>, << U64_MAX, 1 >> }

ProofsOf(id) ==
    IF id # None /\ Uuid_from_str(Unwrap(id)) # None
                 /\ Unwrap(Uuid_from_str(Unwrap(id))) \in DOMAIN db
    THEN ProofsFor(db[Unwrap(Uuid_from_str(Unwrap(id)))].expected_payment_sats)
    ELSE { << 1 >> }

PaymentRequestPayload ==
    UNION { [mint : Mints, id : {id}, proofs : ProofsOf(id)] :
            id \in {None} \cup {Some(s) : s \in IdStrings} }

NoPayload == [mint |-> "mintA", id |-> None, proofs |-> << >>]

-----------------------------------------------------------------------------
(* u64 arithmetic *)

checked_div(a, b) == IF b = 0 THEN None ELSE Some(a \div b)
checked_mul(a, b) == IF a * b > U64_MAX THEN None ELSE Some(a * b)
checked_add_Wrapping(a, b) == Some((a + b) % (U64_MAX + 1))
checked_add(a, b) == IF a + b > U64_MAX THEN None ELSE Some(a + b)
wrapping_mul(a, b) == (a * b) % (U64_MAX + 1)

\* Amount::try_sum: a checked sum of the amounts
RECURSIVE try_sum(_)
try_sum(amounts) ==
    IF amounts = << >> THEN Some(0)
    ELSE LET rest == try_sum(Tail(amounts))
         IN  IF rest = None THEN None ELSE checked_add(Head(amounts), Unwrap(rest))

-----------------------------------------------------------------------------
(* The quote store, crate::db::Db *)

\* put: upsert, overwrites any record with the same id
add_quote(d, q) ==
    [i \in DOMAIN d \cup {q.id} |-> IF i = q.id THEN q ELSE d[i]]

\* get: the record, or None for NotFound
get_quote(d, id) == IF id \in DOMAIN d THEN Some(d[id]) ELSE None

\* set_state: updates the state in place; the updated record is d'[id]
update_quote_state(d, id, new_state) ==
    add_quote(d, [d[id] EXCEPT !.state = new_state])

-----------------------------------------------------------------------------
(* LspError values *)

InvalidUuid(s) == [kind |-> "InvalidUuid", text |-> s]
QuoteNotFound(id) == [kind |-> "QuoteNotFound", id |-> id]
InvalidChannelSize(size, min, max) ==
    [kind |-> "InvalidChannelSize", size |-> size, min |-> min, max |-> max]
UnsupportedMint(mint) == [kind |-> "UnsupportedMint", mint |-> mint]
InvalidQuoteState(id, state) == [kind |-> "InvalidQuoteState", id |-> id, state |-> state]
InsufficientPayment(expected, received) ==
    [kind |-> "InsufficientPayment", expected |-> expected, received |-> received]
DatabaseError == [kind |-> "DatabaseError"]
ChannelOpenError == [kind |-> "ChannelOpenError"]
WalletError == [kind |-> "WalletError"]
ProofVerificationError == [kind |-> "ProofVerificationError"]
InternalError == [kind |-> "InternalError"]
\* the handler's task panicked: no response is produced
Panicked == [kind |-> "Panicked"]
OkUnit == [kind |-> "Ok"]

-----------------------------------------------------------------------------
(* The initial state: the server has started, the store is empty *)

Started ==
    /\ db = << >>
    /\ next_uuid = 0
    /\ channels = {}
    /\ pc = [h \in Procs |-> "ready"]
    /\ req = [h \in Procs |-> NoPayload]
    /\ quote = [h \in Procs |-> None]
    /\ opened = [h \in Procs |-> None]
    /\ last = [op |-> "none", res |-> [kind |-> "none"]]
    /\ redeemed = [id \in Uuids |-> 0]
    /\ opens = [id \in Uuids |-> 0]
    /\ handles = [id \in Uuids |-> {}]
    /\ main = "serve"
    /\ signals = 0

Init ==
    /\ cashu_lsp_info \in CashuLspInfo
    /\ Started

-----------------------------------------------------------------------------
(* GET /info *)

\* the listener accepts new requests until the shutdown signal (line 167)
Accepting == main = "serve"

get_lsp_info ==
    /\ Accepting
    /\ last' = [op |-> "info", res |-> [kind |-> "Ok", info |-> cashu_lsp_info]]
    /\ UNCHANGED <<main, signals, cashu_lsp_info, db, next_uuid, channels, pc, req, quote,
                   opened, redeemed, opens, handles>>

-----------------------------------------------------------------------------
(* POST /channel-quote *)

\* lines 167-172 without the floor of lines 174-178
Fee_NoFloor(info, size) ==
    LET per_k == checked_div(size, 1000)
    IN  IF per_k = None THEN None ELSE checked_mul(Unwrap(per_k), info.fee_ppk)

\* lines 167-178: the fee, None when the arithmetic overflows
Fee(info, size) ==
    LET per_k == checked_div(size, 1000)
        fee == IF per_k = None THEN None ELSE checked_mul(Unwrap(per_k), info.fee_ppk)
    IN  IF fee = None THEN None
        ELSE IF Unwrap(fee) < info.min_fee THEN Some(info.min_fee) ELSE fee

\* lines 191-196: the amount to pay, None when the arithmetic overflows
PaymentRequired(size, fee, push_amount) ==
    LET with_fee == checked_add(size, fee)
    IN  IF with_fee = None THEN None
        ELSE checked_add(Unwrap(with_fee),
                         IF push_amount = None THEN 0 ELSE Unwrap(push_amount))

\* lines 207-216 with an id that does not depend on the call
NewQuote_Keyed(id, payload, payment_required) ==
    [id |-> 1,
     channel_size_sats |-> payload.channel_size_sats,
     push_amount_sats |-> payload.push_amount,
     expected_payment_sats |-> payment_required,
     node_pubkey |-> payload.node_pubkey,
     addr |-> payload.addr,
     state |-> "Unpaid",
     channel_id |-> None]

\* lines 207-216 with the quote created as already paid
NewQuote_Paid(id, payload, payment_required) ==
    [id |-> id,
     channel_size_sats |-> payload.channel_size_sats,
     push_amount_sats |-> payload.push_amount,
     expected_payment_sats |-> payment_required,
     node_pubkey |-> payload.node_pubkey,
     addr |-> payload.addr,
     state |-> "Paid",
     channel_id |-> None]

\* lines 207-216
NewQuote(id, payload, payment_required) ==
    [id |-> id,
     channel_size_sats |-> payload.channel_size_sats,
     push_amount_sats |-> payload.push_amount,
     expected_payment_sats |-> payment_required,
     node_pubkey |-> payload.node_pubkey,
     addr |-> payload.addr,
     state |-> "Unpaid",
     channel_id |-> None]

\* lines 150-165 with the bounds excluded from the range
SizeOutOfRange_Exclusive(info, size) ==
    size >= info.max_channel_size_sat \/ size <= info.min_channel_size_sat

\* the channel size is outside the configured range (lines 150-165)
SizeOutOfRange(info, size) ==
    size > info.max_channel_size_sat \/ size < info.min_channel_size_sat

post_channel_quote(payload) ==
    LET info == cashu_lsp_info
        size == payload.channel_size_sats
        fee == Fee(info, size)
        id == next_uuid + 1
        required == IF fee = None THEN None
                    ELSE PaymentRequired(size, Unwrap(fee), payload.push_amount)
        Done(res, d, n) ==
            /\ last' = [op |-> "channel-quote", res |-> res]
            /\ db' = d
            /\ next_uuid' = n
    IN  /\ Accepting
        /\ IF SizeOutOfRange(info, size)
           THEN Done(InvalidChannelSize(size, info.min_channel_size_sat,
                                        info.max_channel_size_sat), db, next_uuid)
           ELSE IF fee = None
           THEN Done(Panicked, db, next_uuid)
           ELSE /\ next_uuid < MaxQuotes
                /\ IF required = None
                   THEN Done(Panicked, db, id)
                   ELSE \E db_ok \in BOOLEAN :
                          IF db_ok
                          THEN Done([kind |-> "Ok", payment_id |-> id,
                                     amount |-> Unwrap(required)],
                                    add_quote(db, NewQuote(id, payload, Unwrap(required))),
                                    id)
                          ELSE Done(DatabaseError, db, id)
        /\ UNCHANGED <<main, signals, cashu_lsp_info, channels, pc, req, quote, opened,
                       redeemed, opens, handles>>

-----------------------------------------------------------------------------
(* GET /quote/{id} *)

\* the response's channel_id taken from the stored handle alone
LiveChannelId_Stored(q, all_channel) ==
    IF q.channel_id = None THEN None ELSE Some(ExternalId(Unwrap(q.channel_id)))

\* lines 253-269: the channel_id of the node's channel whose user_channel_id
\* is the quote's handle, None when the quote has no handle or no channel has it
LiveChannelId(q, all_channel) ==
    IF q.channel_id = None THEN None
    ELSE LET channel == {c \in all_channel : c.user_channel_id = Unwrap(q.channel_id)}
         IN  IF channel = {} THEN None
             ELSE Some((CHOOSE c \in channel : TRUE).channel_id)

get_quote_state(id_text) ==
    LET id == Uuid_from_str(id_text)
        found == IF id = None THEN None ELSE get_quote(db, Unwrap(id))
        res == IF id = None THEN InvalidUuid(id_text)
               ELSE IF found = None THEN QuoteNotFound(Unwrap(id))
               ELSE [kind |-> "Ok", id |-> Unwrap(found).id,
                     state |-> Unwrap(found).state,
                     channel_id |-> LiveChannelId(Unwrap(found), channels)]
    IN  /\ Accepting
        /\ last' = [op |-> "quote", res |-> res]
        /\ UNCHANGED <<main, signals, cashu_lsp_info, db, next_uuid, channels, pc, req, quote,
                       opened, redeemed, opens, handles>>

-----------------------------------------------------------------------------
(* POST /payment *)

\* line 324: the comparison that rejects a payment as insufficient
AmountRejected(expected, received) == expected < received

\* lines 286-334: the checks made before the wallet is called. The result is
\* the error returned, or "Pass" with the parsed quote id.
Validate_NoStateCheck(payload, info, d) ==
    IF payload.mint \notin info.accepted_mints THEN UnsupportedMint(payload.mint)
    ELSE IF payload.id = None THEN InvalidUuid(<< "missing" >>)
    ELSE IF Uuid_from_str(Unwrap(payload.id)) = None THEN InvalidUuid(Unwrap(payload.id))
    ELSE LET id == Unwrap(Uuid_from_str(Unwrap(payload.id)))
             found == get_quote(d, id)
             received == try_sum(payload.proofs)
         IN  IF found = None THEN QuoteNotFound(id)
             ELSE IF received = None THEN InternalError
             ELSE IF AmountRejected(Unwrap(found).expected_payment_sats, Unwrap(received))
             THEN InsufficientPayment(Unwrap(found).expected_payment_sats, Unwrap(received))
             ELSE [kind |-> "Pass", id |-> id]

Validate(payload, info, d) ==
    IF payload.mint \notin info.accepted_mints THEN UnsupportedMint(payload.mint)
    ELSE IF payload.id = None THEN InvalidUuid(<< "missing" >>)
    ELSE IF Uuid_from_str(Unwrap(payload.id)) = None THEN InvalidUuid(Unwrap(payload.id))
    ELSE LET id == Unwrap(Uuid_from_str(Unwrap(payload.id)))
             found == get_quote(d, id)
             received == try_sum(payload.proofs)
         IN  IF found = None THEN QuoteNotFound(id)
             ELSE IF Unwrap(found).state # "Unpaid"
             THEN InvalidQuoteState(id, Unwrap(found).state)
             ELSE IF received = None THEN InternalError
             ELSE IF AmountRejected(Unwrap(found).expected_payment_sats, Unwrap(received))
             THEN InsufficientPayment(Unwrap(found).expected_payment_sats, Unwrap(received))
             ELSE [kind |-> "Pass", id |-> id]

\* the number of successful redemptions so far
RECURSIVE SumUpTo(_, _)
SumUpTo(f, n) == IF n = 0 THEN 0 ELSE f[n] + SumUpTo(f, n - 1)
TotalRedeemed == SumUpTo(redeemed, MaxQuotes)

\* the quote id of the request handler h is processing
QuoteId(h) == Unwrap(Uuid_from_str(Unwrap(req[h].id)))

\* the handler returns res; its locals are dropped
Return(h, res) ==
    /\ last' = [op |-> "payment", res |-> res]
    /\ pc' = [pc EXCEPT ![h] = "ready"]
    /\ req' = [req EXCEPT ![h] = NoPayload]
    /\ quote' = [quote EXCEPT ![h] = None]
    /\ opened' = [opened EXCEPT ![h] = None]

\* the handler goes on to the step `to`
Goto(h, to) ==
    /\ pc' = [pc EXCEPT ![h] = to]
    /\ UNCHANGED last

\* lines 286-334: an early return with a validation error
Rejected_AfterRedeem(h, payload, v) ==
    /\ Return(h, v)
    /\ redeemed' = IF v.kind = "InsufficientPayment"
                   THEN [redeemed EXCEPT ![Unwrap(Uuid_from_str(Unwrap(payload.id)))] = @ + 1]
                   ELSE redeemed
    /\ UNCHANGED <<db, channels, opens, handles>>

Rejected(h, payload, v) ==
    /\ Return(h, v)
    /\ UNCHANGED <<db, channels, redeemed, opens, handles>>

\* lines 284-334: a request arrives and is validated against the store
Receive(h, payload) ==
    LET v == Validate(payload, cashu_lsp_info, db)
    IN  /\ Accepting
        /\ pc[h] = "ready"
        /\ IF v.kind = "Pass"
           THEN /\ req' = [req EXCEPT ![h] = payload]
                /\ quote' = [quote EXCEPT ![h] = get_quote(db, v.id)]
                /\ Goto(h, "receive_proofs")
                /\ UNCHANGED <<opened, db, channels, redeemed, opens, handles>>
           ELSE Rejected(h, payload, v)
        /\ UNCHANGED <<main, signals, cashu_lsp_info, next_uuid>>

\* lines 352-355: receive_proofs failed
RedeemFailed_Marked(h) ==
    /\ Return(h, ProofVerificationError)
    /\ db' = update_quote_state(db, QuoteId(h), "ChannelPending")
    /\ UNCHANGED redeemed

RedeemFailed(h) ==
    /\ Return(h, ProofVerificationError)
    /\ UNCHANGED <<db, redeemed>>

\* lines 336-361: the wallet of the mint redeems the proofs, or fails
ReceiveProofs(h) ==
    /\ pc[h] = "receive_proofs"
    /\ IF req[h].mint \notin Wallets(cashu_lsp_info)
       THEN /\ Return(h, WalletError)
            /\ UNCHANGED <<db, redeemed>>
       ELSE \E received \in BOOLEAN :
              IF received
              THEN /\ TotalRedeemed < MaxRedeemed
                   /\ redeemed' = [redeemed EXCEPT ![QuoteId(h)] = @ + 1]
                   /\ Goto(h, "update_quote_state")
                   /\ UNCHANGED <<db, req, quote, opened>>
              ELSE RedeemFailed(h)
    /\ UNCHANGED <<main, signals, cashu_lsp_info, next_uuid, channels, opens, handles>>

\* a store write that fails although the state it carried reached the record
WriteFailed_Partial(h) ==
    /\ Return(h, DatabaseError)
    /\ db' = [db EXCEPT ![QuoteId(h)].state = "Paid"]

\* lines 366-369, 393-396, 401-407: the store write failed; the error is
\* mapped to DatabaseError and returned with `?`
WriteFailed(h) ==
    /\ Return(h, DatabaseError)
    /\ UNCHANGED db

\* lines 363-370: the quote is moved to ChannelPending, or the store fails
UpdateQuoteState(h) ==
    /\ pc[h] = "update_quote_state"
    /\ \E db_ok \in BOOLEAN :
         IF db_ok
         THEN /\ db' = update_quote_state(db, QuoteId(h), "ChannelPending")
              /\ quote' = [quote EXCEPT ![h] = Some(db'[QuoteId(h)])]
              /\ Goto(h, "open_channel")
              /\ UNCHANGED <<req, opened>>
         ELSE WriteFailed(h)
    /\ UNCHANGED <<main, signals, cashu_lsp_info, next_uuid, channels, redeemed, opens, handles>>

\* line 384: push_amount_sats.map(|a| a * 1_000): the set of values the
\* multiplication can give, None standing for the overflow panic of a build
\* with overflow checks
PushMsat(push_amount_sats) ==
    IF push_amount_sats = None THEN { Some(None) }
    ELSE IF Unwrap(push_amount_sats) * 1000 > U64_MAX
    THEN { None, Some(Some(wrapping_mul(Unwrap(push_amount_sats), 1000))) }
    ELSE { Some(Some(Unwrap(push_amount_sats) * 1000)) }

\* the node's record of a channel it was asked to open
ChannelDetails(handle, q, push_msat) ==
    [user_channel_id |-> handle,
     channel_id |-> ExternalId(handle),
     node_pubkey |-> q.node_pubkey,
     addr |-> q.addr,
     channel_size_sats |-> q.channel_size_sats,
     push_msat |-> push_msat]

\* the user_channel_id the node gives a new channel: one it has not given before
NewUserChannelId == Cardinality(UNION {handles[id] : id \in Uuids}) + 1

\* lines 380-386: the node is asked to open the channel
OpenChannel(h) ==
    LET q == Unwrap(quote[h])
    IN  /\ pc[h] = "open_channel"
        /\ \E push_msat \in PushMsat(q.push_amount_sats) :
             IF push_msat = None
             THEN /\ Return(h, Panicked)
                  /\ UNCHANGED <<channels, opens, handles>>
             ELSE /\ opens' = [opens EXCEPT ![q.id] = @ + 1]
                  /\ \E open_ok \in BOOLEAN :
                       IF open_ok
                       THEN LET handle == NewUserChannelId
                            IN  /\ channels' = channels \cup
                                     { ChannelDetails(handle, q, Unwrap(push_msat)) }
                                /\ handles' = [handles EXCEPT ![q.id] = @ \cup {handle}]
                                /\ opened' = [opened EXCEPT ![h] = Some(handle)]
                       ELSE /\ opened' = [opened EXCEPT ![h] = None]
                            /\ UNCHANGED <<channels, handles>>
                  /\ Goto(h, "add_quote")
                  /\ UNCHANGED <<req, quote>>
        /\ UNCHANGED <<main, signals, cashu_lsp_info, db, next_uuid, redeemed>>

\* lines 388-409 with the expected payment recomputed from the record
Finalized_Repriced(q, open_channel) ==
    IF open_channel # None
    THEN [q EXCEPT !.channel_id = open_channel, !.state = "ChannelOpen",
                   !.expected_payment_sats = q.channel_size_sats]
    ELSE [q EXCEPT !.state = "Paid", !.expected_payment_sats = q.channel_size_sats]

\* lines 388-409 with a failed open recorded as ChannelExpired
Finalized_Expired(q, open_channel) ==
    IF open_channel # None
    THEN [q EXCEPT !.channel_id = open_channel, !.state = "ChannelOpen"]
    ELSE [q EXCEPT !.state = "ChannelExpired"]

\* lines 388-409: the local quote after the match on the result of the open
Finalized(q, open_channel) ==
    IF open_channel # None
    THEN [q EXCEPT !.channel_id = open_channel, !.state = "ChannelOpen"]
    ELSE [q EXCEPT !.state = "Paid"]

\* lines 388-413: the response when the final write succeeded
Completed_Surfaced(open_channel) ==
    IF open_channel # None THEN OkUnit ELSE ChannelOpenError

Completed(open_channel) == OkUnit

\* lines 388-413: the outcome is written to the store and the handler returns
AddQuote(h) ==
    /\ pc[h] = "add_quote"
    /\ \E db_ok \in BOOLEAN :
         IF db_ok
         THEN /\ db' = add_quote(db, Finalized(Unwrap(quote[h]), opened[h]))
              /\ Return(h, Completed(opened[h]))
         ELSE WriteFailed(h)
    /\ UNCHANGED <<main, signals, cashu_lsp_info, next_uuid, channels, redeemed, opens, handles>>

post_receive_payment(h) ==
    \/ \E payload \in PaymentRequestPayload : Receive(h, payload)
    \/ ReceiveProofs(h)
    \/ UpdateQuoteState(h)
    \/ OpenChannel(h)
    \/ AddQuote(h)

-----------------------------------------------------------------------------

Next ==
    \/ get_lsp_info
    \/ \E payload \in ChannelQuoteRequest : post_channel_quote(payload)
    \/ \E id_text \in IdStrings : get_quote_state(id_text)
    \/ \E h \in Procs : post_receive_payment(h)

Spec == Init /\ [][Next]_vars

-----------------------------------------------------------------------------
(* Definitions shared by the properties *)

\* the sum of the proofs handler h received (it passed try_sum)
Received(h) == Unwrap(try_sum(req[h].proofs))

\* what a request may change besides the handler's own locals and response
Effects == <<db, channels, redeemed, opens, handles, next_uuid>>

\* the payload names a stored quote through an accepted mint
NamesQuote(payload) ==
    /\ payload.mint \in cashu_lsp_info.accepted_mints
    /\ payload.id # None
    /\ Uuid_from_str(Unwrap(payload.id)) # None
    /\ Unwrap(Uuid_from_str(Unwrap(payload.id))) \in DOMAIN db

NamedQuote(payload) == db[Unwrap(Uuid_from_str(Unwrap(payload.id)))]

\* the step produces a response
Responds == last' # last

-----------------------------------------------------------------------------
(* C1: the channel-open operation is invoked at most once for every quote
   id, whatever the interleaving of the payment submissions. *)
C1_AtMostOneChannelOpen ==
    \A id \in Uuids : opens[id] <= 1

(* C2: of the payment submissions in flight for the same quote id at most
   one has had its proofs redeemed; the others were rejected and redeemed
   nothing. *)
C2_OneRedemptionAmongConcurrent ==
    \A h1, h2 \in Procs :
        ( /\ h1 # h2
          /\ pc[h1] \in {"update_quote_state", "open_channel", "add_quote"}
          /\ pc[h2] \in {"update_quote_state", "open_channel", "add_quote"} )
        => QuoteId(h1) # QuoteId(h2)

(* C3: a handler for which the channel-open operation has been invoked
   handles a submission that passed the mint, id, existence and amount
   checks (the proofs sum to at least the expected payment) and whose
   redemption succeeded. *)
C3_OpenOnlyAfterValidatedPayment ==
    \A h \in Procs :
        pc[h] = "add_quote"
        => /\ NamesQuote(req[h])
           /\ redeemed[QuoteId(h)] >= 1
           /\ Received(h) >= NamedQuote(req[h]).expected_payment_sats

(* C4: a POST /payment for an Unpaid quote whose proofs sum to less than
   expected_payment_sats returns InsufficientPayment{expected, received},
   redeems nothing, opens no channel and leaves the store as it was. *)
C4_InsufficientPaymentRejected ==
    [][ \A h \in Procs : \A payload \in PaymentRequestPayload :
          ( /\ Receive(h, payload)
            /\ NamesQuote(payload)
            /\ NamedQuote(payload).state = "Unpaid"
            /\ try_sum(payload.proofs) # None
            /\ Unwrap(try_sum(payload.proofs)) < NamedQuote(payload).expected_payment_sats )
          => /\ last'.res = InsufficientPayment(NamedQuote(payload).expected_payment_sats,
                                                Unwrap(try_sum(payload.proofs)))
             /\ pc'[h] = "ready"
             /\ UNCHANGED Effects ]_vars

(* C5: a POST /payment for an Unpaid quote, through an accepted mint, whose
   proofs sum to expected_payment_sats or more passes the amount check: the
   handler goes on to the wallet and InsufficientPayment is not returned. *)
C5_SufficientPaymentAccepted ==
    [][ \A h \in Procs : \A payload \in PaymentRequestPayload :
          ( /\ Receive(h, payload)
            /\ NamesQuote(payload)
            /\ NamedQuote(payload).state = "Unpaid"
            /\ try_sum(payload.proofs) # None
            /\ Unwrap(try_sum(payload.proofs)) >= NamedQuote(payload).expected_payment_sats )
          => pc'[h] = "receive_proofs" ]_vars

-----------------------------------------------------------------------------
(* C6: a POST /payment that names, through an accepted mint, a quote whose
   state is ChannelPending, Paid or ChannelOpen is answered by the checks
   with InvalidQuoteState carrying the state the store holds; no handler goes
   on to the wallet for a quote that is not Unpaid; and the step that returns
   InvalidQuoteState changes neither the store nor the redemptions, channel
   opens and channels. *)
C6_DoublePaymentRejected ==
    /\ [](\A payload \in PaymentRequestPayload :
            ( /\ NamesQuote(payload)
              /\ NamedQuote(payload).state \in {"ChannelPending", "Paid", "ChannelOpen"} )
            => Validate(payload, cashu_lsp_info, db)
                 = InvalidQuoteState(NamedQuote(payload).id, NamedQuote(payload).state))
    /\ [][ \A h \in Procs :
             (pc[h] = "ready" /\ pc'[h] # "ready")
             => NamedQuote(req'[h]).state = "Unpaid" ]_vars
    /\ [][ (Responds /\ last'.op = "payment" /\ last'.res.kind = "InvalidQuoteState")
           => /\ last'.res.state = db[last'.res.id].state
              /\ last'.res.state \in {"ChannelPending", "Paid", "ChannelOpen"}
              /\ UNCHANGED Effects ]_vars

C6_Witness ==
    /\ last.op = "payment"
    /\ last.res.kind = "InvalidQuoteState"
    /\ last.res.state = "ChannelOpen"
    /\ db[last.res.id].state = "ChannelOpen"

(* C7: when the channel opener returned an error for a redeemed payment and
   the handler returns success, the persisted quote is Paid and its
   channel_id is None. *)
C7_OpenFailureLeavesPaid ==
    [][ \A h \in Procs :
          (pc[h] = "add_quote" /\ opened[h] = None /\ pc'[h] = "ready"
             /\ last'.res = OkUnit)
          => /\ db'[QuoteId(h)].state = "Paid"
             /\ db'[QuoteId(h)].channel_id = None ]_vars

(* C8: ChannelOpenError is never returned; a handler that returns after the
   channel opener answered, with a handle or with an error, returns success
   unless the store refused the final write (DatabaseError, store as it was). *)
C8_OpenOutcomeNotSurfaced ==
    /\ [](last.res.kind # "ChannelOpenError")
    /\ [][ \A h \in Procs :
             (pc[h] = "add_quote" /\ pc'[h] = "ready")
             => /\ last'.op = "payment"
                /\ \/ last'.res = OkUnit
                   \/ last'.res = DatabaseError /\ db' = db ]_vars

C8_Witness ==
    /\ last.op = "payment"
    /\ last.res = OkUnit
    /\ DOMAIN db = {1}
    /\ db[1].state = "Paid"
    /\ redeemed[1] = 1
    /\ \A h \in Procs : pc[h] = "ready"

(* C9: when the wallet exists and the handler returns from the redemption
   step, it returns ProofVerificationError and the step changes neither the
   store nor the redemptions, channel opens and channels; the request that
   passed the checks before the step passes them after it, so it can be
   submitted again; and a handler leaves the redemption step for the store
   update only with a successful redemption. *)
C9_RedemptionFailureNonMutating ==
    [][ \A h \in Procs :
          /\ (pc[h] = "receive_proofs" /\ pc'[h] = "ready"
                /\ req[h].mint \in Wallets(cashu_lsp_info))
             => /\ last'.op = "payment"
                /\ last'.res = ProofVerificationError
                /\ UNCHANGED Effects
                /\ (Validate(req[h], cashu_lsp_info, db).kind = "Pass"
                      => Validate(req[h], cashu_lsp_info, db').kind = "Pass")
          /\ (pc[h] = "receive_proofs" /\ pc'[h] = "update_quote_state")
             => redeemed'[QuoteId(h)] = redeemed[QuoteId(h)] + 1 ]_vars

C9_Witness ==
    /\ last.op = "payment"
    /\ last.res = ProofVerificationError
    /\ DOMAIN db = {1}
    /\ db[1].state = "Unpaid"
    /\ redeemed[1] = 0
    /\ \A h \in Procs : pc[h] = "ready"

(* C10: a step that produces InvalidUuid, InvalidChannelSize,
   UnsupportedMint, QuoteNotFound, InvalidQuoteState or InsufficientPayment
   leaves the quote store as it was and triggers neither a redemption nor a
   channel open. *)
ValidationErrors ==
    {"InvalidUuid", "InvalidChannelSize", "UnsupportedMint", "QuoteNotFound",
     "InvalidQuoteState", "InsufficientPayment"}

C10_ValidationErrorsDoNotMutate ==
    [][ (Responds /\ last'.res.kind \in ValidationErrors) => UNCHANGED Effects ]_vars

C10_Witness ==
    /\ last.op = "payment"
    /\ last.res.kind = "InsufficientPayment"
    /\ DOMAIN db = {1}
    /\ db[1].state = "Unpaid"

-----------------------------------------------------------------------------
(* C11: the only changes of a quote's persisted state are
   Unpaid -> ChannelPending, ChannelPending -> ChannelOpen and
   ChannelPending -> Paid: no quote returns to Unpaid, and a quote that is
   ChannelOpen or Paid never changes state again. *)
Transitions ==
    { <<"Unpaid", "ChannelPending">>, <<"ChannelPending", "ChannelOpen">>,
      <<"ChannelPending", "Paid">> }

C11_MonotonicTransitions ==
    [][ \A id \in DOMAIN db :
          db'[id].state # db[id].state
          => <<db[id].state, db'[id].state>> \in Transitions ]_vars

(* C12: once no payment handler is in flight for a quote, the quote's
   persisted channel_id is set if and only if the channel-open operation
   returned a handle for that quote, and the stored value is such a handle. *)
InFlight(id) ==
    \E h \in Procs : pc[h] # "ready" /\ QuoteId(h) = id

C12_ChannelIdIffHandle ==
    \A id \in DOMAIN db :
        ~InFlight(id)
        => /\ db[id].channel_id # None <=> handles[id] # {}
           /\ db[id].channel_id # None => Unwrap(db[id].channel_id) \in handles[id]

-----------------------------------------------------------------------------
(* Quote creation over a range of configurations and requests *)

\* configurations: a maximum below and at the top of the u64 range, with and
\* without a minimum fee, with a zero, a small and a large fee rate
LspConfigs ==
    { [min_channel_size_sat |-> 10000, max_channel_size_sat |-> max,
       accepted_mints |-> {"mintA"}, min_fee |-> min_fee, fee_ppk |-> fee_ppk] :
      max \in {1000000, U64_MAX}, min_fee \in {0, 500}, fee_ppk \in {0, 1, 2000} }

\* requests: sizes just below and at the minimum, at and just above the lower
\* maximum, and 151 below the top of the u64 range; no push amount, and push
\* amounts that reach and pass the top of the range from that size
QuoteRequests ==
    { Request(size, push) :
      size \in {9999, 10000, 1000000, 1000001, U64_MAX - 151},
      push \in {None, Some(151), Some(152)} }

InitQuote ==
    /\ cashu_lsp_info \in LspConfigs
    /\ Started

NextQuote ==
    \E payload \in QuoteRequests : post_channel_quote(payload)

SpecQuote == InitQuote /\ [][NextQuote]_vars

Max(a, b) == IF a >= b THEN a ELSE b

\* the price of a quote by the pricing rule, in unbounded integers
Price(info, q) ==
    q.channel_size_sats
    + Max((q.channel_size_sats \div 1000) * info.fee_ppk, info.min_fee)
    + (IF q.push_amount_sats = None THEN 0 ELSE Unwrap(q.push_amount_sats))

(* C13: every quote POST /channel-quote persisted has expected_payment_sats =
   channel_size_sats + max(floor(channel_size_sats / 1000) * fee_ppk, min_fee)
   + push (0 when absent), and the response to the creation carries that
   amount. *)
C13_Pricing ==
    /\ \A id \in DOMAIN db :
          db[id].expected_payment_sats = Price(cashu_lsp_info, db[id])
    /\ (last.op = "channel-quote" /\ last.res.kind = "Ok")
       => last.res.amount = Price(cashu_lsp_info, db[last.res.payment_id])

\* size 1_000_000 at 1 per thousand with a minimum fee of 500 costs
\* 1_001_000, and size 10_000 pays the minimum fee
C13_Witness ==
    /\ cashu_lsp_info.fee_ppk = 1
    /\ cashu_lsp_info.min_fee = 500
    /\ DOMAIN db = {1, 2}
    /\ db[1].channel_size_sats = 1000000
    /\ db[1].push_amount_sats = None
    /\ db[1].expected_payment_sats = 1001000
    /\ db[2].channel_size_sats = 10000
    /\ db[2].push_amount_sats = Some(151)
    /\ db[2].expected_payment_sats = 10651

(* C14: POST /channel-quote answers InvalidChannelSize{size, min, max}
   exactly when channel_size_sats is below min_channel_size_sat or above
   max_channel_size_sat, and then persists nothing; sizes equal to the
   minimum or the maximum are not rejected; every stored quote has a size
   within [min, max]. *)
C14_SizeRejection ==
    /\ [](\A id \in DOMAIN db :
            /\ db[id].channel_size_sats >= cashu_lsp_info.min_channel_size_sat
            /\ db[id].channel_size_sats <= cashu_lsp_info.max_channel_size_sat)
    /\ [][ \A payload \in QuoteRequests :
             post_channel_quote(payload)
             => LET size == payload.channel_size_sats
                    min == cashu_lsp_info.min_channel_size_sat
                    max == cashu_lsp_info.max_channel_size_sat
                IN  IF size < min \/ size > max
                    THEN /\ last'.res = InvalidChannelSize(size, min, max)
                         /\ db' = db
                    ELSE last'.res.kind # "InvalidChannelSize" ]_vars

\* quotes at the minimum and at the maximum are stored, and a request one
\* above the maximum has just been rejected
C14_Witness ==
    /\ DOMAIN db = {1, 2}
    /\ db[1].channel_size_sats = cashu_lsp_info.min_channel_size_sat
    /\ db[2].channel_size_sats = cashu_lsp_info.max_channel_size_sat
    /\ last.op = "channel-quote"
    /\ last.res.kind = "InvalidChannelSize"
    /\ last.res.size = cashu_lsp_info.max_channel_size_sat + 1

(* C15: when floor(size / 1000) * fee_ppk or size + fee + push exceeds the
   u64 range for an in-range size, quote creation does not succeed and the
   store is left as it was; no stored quote has a price beyond the u64 range,
   so none carries a wrapped amount. *)
C15_OverflowDetected ==
    /\ [](\A id \in DOMAIN db : Price(cashu_lsp_info, db[id]) <= U64_MAX)
    /\ [][ \A payload \in QuoteRequests :
             LET q == [channel_size_sats |-> payload.channel_size_sats,
                       push_amount_sats |-> payload.push_amount]
             IN  ( /\ post_channel_quote(payload)
                   /\ q.channel_size_sats >= cashu_lsp_info.min_channel_size_sat
                   /\ q.channel_size_sats <= cashu_lsp_info.max_channel_size_sat
                   /\ \/ (q.channel_size_sats \div 1000) * cashu_lsp_info.fee_ppk > U64_MAX
                      \/ Price(cashu_lsp_info, q) > U64_MAX )
                 => /\ last'.res.kind # "Ok"
                    /\ db' = db ]_vars

\* with no fee at all, a push amount that takes the size past the top of the
\* range has made the creation fail after a quote at the top was stored
C15_Witness ==
    /\ cashu_lsp_info.fee_ppk = 0
    /\ cashu_lsp_info.min_fee = 0
    /\ last.op = "channel-quote"
    /\ last.res = Panicked
    /\ next_uuid = 2
    /\ DOMAIN db = {1}
    /\ db[1].expected_payment_sats = U64_MAX

(* C16: a successful POST /channel-quote stores its quote under an id that no
   stored quote has and leaves every stored quote as it was; no creation,
   successful or not, alters or removes a stored quote. *)
C16_IssuanceNotDeduplicated ==
    [][ \A payload \in QuoteRequests :
          post_channel_quote(payload)
          => /\ \A id \in DOMAIN db : id \in DOMAIN db' /\ db'[id] = db[id]
             /\ last'.res.kind = "Ok"
                => /\ last'.res.payment_id \notin DOMAIN db
                   /\ DOMAIN db' = DOMAIN db \cup {last'.res.payment_id}
                   /\ db'[last'.res.payment_id].id = last'.res.payment_id ]_vars

\* two creations with identical inputs left two records that differ in
\* their ids only
C16_Witness ==
    /\ DOMAIN db = {1, 2}
    /\ db[2] = [db[1] EXCEPT !.id = 2]
    /\ db[1].id = 1

-----------------------------------------------------------------------------
(* The quote lifecycle with the node's channels closing *)

\* proto/server.rs close_channel: the node closes a channel, which leaves
\* its list of channels
close_channel(c) ==
    /\ channels' = channels \ {c}
    /\ UNCHANGED <<main, signals, cashu_lsp_info, db, next_uuid, pc, req, quote, opened, last,
                   redeemed, opens, handles>>

\* the process crashes and is started again: the requests in flight are
\* lost with their locals, the store (cashu-lsp.redb, cdk-ldk-node.rs line
\* 150) and the node's channels are what they were
Crash ==
    /\ pc' = [h \in Procs |-> "ready"]
    /\ req' = [h \in Procs |-> NoPayload]
    /\ quote' = [h \in Procs |-> None]
    /\ opened' = [h \in Procs |-> None]
    /\ last' = [op |-> "crash", res |-> [kind |-> "none"]]
    /\ main' = "serve"
    /\ UNCHANGED <<signals, cashu_lsp_info, db, next_uuid, channels, redeemed,
                   opens, handles>>

LifecycleRequests == { Request(1000, None) }

NextLifecycle ==
    \/ \E payload \in LifecycleRequests : post_channel_quote(payload)
    \/ \E id_text \in IdStrings : get_quote_state(id_text)
    \/ \E h \in Procs : post_receive_payment(h)
    \/ \E c \in channels : close_channel(c)
    \/ Crash

SpecLifecycle == Init /\ [][NextLifecycle]_vars

(* C17: GET /quote/{id} for a stored quote returns the stored state and, as
   channel_id, the external identifier of the node's live channel whose
   user_channel_id is the quote's stored handle; it returns None, without
   error, when the quote has no handle or no live channel has it; the query
   changes neither the store nor the node's channels. *)
C17_StatusReconciliation ==
    [][ \A id_text \in IdStrings :
          ( /\ get_quote_state(id_text)
            /\ Uuid_from_str(id_text) # None
            /\ Unwrap(Uuid_from_str(id_text)) \in DOMAIN db )
          => LET q == db[Unwrap(Uuid_from_str(id_text))]
                 live == {c \in channels :
                            q.channel_id # None
                            /\ c.user_channel_id = Unwrap(q.channel_id)}
             IN  /\ last'.res.kind = "Ok"
                 /\ last'.res.id = q.id
                 /\ last'.res.state = q.state
                 /\ live = {} => last'.res.channel_id = None
                 /\ \A c \in live : last'.res.channel_id = Some(c.channel_id)
                 /\ UNCHANGED Effects ]_vars

\* the quote is ChannelOpen with a stored handle, its channel has closed, and
\* the query answered ChannelOpen with no channel_id
C17_Witness ==
    /\ last.op = "quote"
    /\ last.res.kind = "Ok"
    /\ last.res.state = "ChannelOpen"
    /\ last.res.channel_id = None
    /\ db[last.res.id].state = "ChannelOpen"
    /\ db[last.res.id].channel_id # None
    /\ handles[last.res.id] # {}
    /\ channels = {}

\* the query answered with the external identifier of the live channel
C17_Resolved ==
    /\ last.op = "quote"
    /\ last.res.kind = "Ok"
    /\ last.res.channel_id # None
    /\ \E c \in channels :
          /\ Some(c.user_channel_id) = db[last.res.id].channel_id
          /\ last.res.channel_id = Some(c.channel_id)

-----------------------------------------------------------------------------
(* Shutdown: main() of src/src/bin/cdk-ldk-node.rs, lines 167-185 *)

Others == <<cashu_lsp_info, db, next_uuid, channels, pc, req, quote, opened,
            last, redeemed, opens, handles>>

\* the process receives a ctrl-c. A tokio ctrl_c() future completes on the
\* first signal received after it was first polled: the signal completes
\* shutdown_signal() while the server runs (line 167), completes the
\* ctrl_c() main awaits (line 181), and is lost when main awaits neither.
CtrlC ==
    /\ main # "stopped"
    /\ signals < MaxSignals
    /\ signals' = signals + 1
    /\ main' = CASE main = "serve" -> "drain"
                  [] main = "ctrl_c" -> "stop"
                  [] OTHER -> main
    /\ UNCHANGED Others

\* lines 169-178: axum::serve returns once the requests in flight are done;
\* main goes on to await ctrl_c() (line 181)
axum_result ==
    /\ main = "drain"
    /\ \A h \in Procs : pc[h] = "ready"
    /\ main' = "ctrl_c"
    /\ UNCHANGED <<signals, Others>>

\* line 183, lib.rs 100-104: the event processing is cancelled and the node
\* stopped
stop ==
    /\ main = "stop"
    /\ main' = "stopped"
    /\ UNCHANGED <<signals, Others>>

\* payments of the exact amount through the accepted mint
ShutdownPayloads ==
    { p \in PaymentRequestPayload :
        /\ NamesQuote(p)
        /\ p.proofs = << NamedQuote(p).expected_payment_sats >> }

\* the steps of a payment handler after it has accepted the request
Continue(h) ==
    ReceiveProofs(h) \/ UpdateQuoteState(h) \/ OpenChannel(h) \/ AddQuote(h)

NextShutdown ==
    \/ \E payload \in LifecycleRequests : post_channel_quote(payload)
    \/ \E h \in Procs : \E payload \in ShutdownPayloads : Receive(h, payload)
    \/ \E h \in Procs : Continue(h)
    \/ CtrlC
    \/ axum_result
    \/ stop

\* the runtime runs every task that can take a step; signals come as they may
SpecShutdown ==
    /\ Init
    /\ [][NextShutdown]_vars
    /\ WF_vars(axum_result)
    /\ WF_vars(stop)
    /\ \A h \in Procs : WF_vars(Continue(h))

(* C18: after a single ctrl-c the server stops accepting requests, the
   requests in flight complete, and the node is eventually stopped unless a
   further signal arrives: one signal is enough to stop the node. *)
C18_CooperativeShutdown ==
    (signals = 1) ~> (main = "stopped" \/ signals > 1)

-----------------------------------------------------------------------------
(* C19: for every payload whose proofs have a representable sum, the outcome
   of the checks of POST /payment is that of the first failing check in the
   order mint accepted (UnsupportedMint), id parses (InvalidUuid), quote
   exists (QuoteNotFound), state is Unpaid (InvalidQuoteState), proofs sum to
   at least the expected payment (InsufficientPayment); the submission goes
   on to the redemption only when all five pass. *)
FirstFailingCheck(payload) ==
    IF payload.mint \notin cashu_lsp_info.accepted_mints THEN "UnsupportedMint"
    ELSE IF payload.id = None \/ Uuid_from_str(Unwrap(payload.id)) = None
    THEN "InvalidUuid"
    ELSE IF Unwrap(Uuid_from_str(Unwrap(payload.id))) \notin DOMAIN db
    THEN "QuoteNotFound"
    ELSE IF NamedQuote(payload).state # "Unpaid" THEN "InvalidQuoteState"
    ELSE IF Unwrap(try_sum(payload.proofs)) < NamedQuote(payload).expected_payment_sats
    THEN "InsufficientPayment"
    ELSE "Pass"

C19_ChecksInOrder ==
    \A payload \in PaymentRequestPayload :
        try_sum(payload.proofs) # None
        => Validate(payload, cashu_lsp_info, db).kind = FirstFailingCheck(payload)

-----------------------------------------------------------------------------
\* a handler writes ChannelPending only after its redemption succeeded, and
\* goes on to the channel open only with that write done
WriteAfterRedemption ==
    [][ \A h \in Procs :
          (pc[h] = "update_quote_state" /\ pc'[h] = "open_channel")
          => /\ redeemed[QuoteId(h)] >= 1
             /\ db'[QuoteId(h)].state = "ChannelPending" ]_vars

\* the channel open is called only by a handler whose write was done, and a
\* handler whose write failed returns DatabaseError without calling it
OpenAfterWrite ==
    [][ /\ opens' # opens => \E h \in Procs : pc[h] = "open_channel"
        /\ \A h \in Procs :
             (UpdateQuoteState(h) /\ pc'[h] = "ready")
             => /\ last'.res = DatabaseError
                /\ opens' = opens
                /\ db' = db ]_vars

\* a crash while a handler is between its write and the return of the
\* channel open leaves the handler's quote ChannelPending in the store
CrashLeavesChannelPending ==
    [][ \A h \in Procs :
          (Crash /\ pc[h] = "open_channel")
          => db'[QuoteId(h)].state = "ChannelPending" ]_vars

(* C20: within a payment submission the write of ChannelPending comes after
   the successful redemption and before the channel-open call; when the write
   fails the channel open is not attempted; and a crash between the write and
   the return of the open call leaves the quote persisted as ChannelPending. *)
C20_PivotOrdering ==
    /\ WriteAfterRedemption
    /\ OpenAfterWrite
    /\ CrashLeavesChannelPending

-----------------------------------------------------------------------------
\* the fields of a quote that are written at creation only
Immutable(q) ==
    [id |-> q.id, channel_size_sats |-> q.channel_size_sats,
     push_amount_sats |-> q.push_amount_sats,
     expected_payment_sats |-> q.expected_payment_sats,
     node_pubkey |-> q.node_pubkey, addr |-> q.addr]

(* C21: no step changes the id, channel_size_sats, push_amount_sats,
   expected_payment_sats, node_pubkey or addr of a stored quote, and a
   quote is stored under its own id: payment processing changes only state
   and channel_id. *)
C21_ImmutableFields ==
    /\ [](\A id \in DOMAIN db : db[id].id = id)
    /\ [][ \A id \in DOMAIN db :
             id \in DOMAIN db' /\ Immutable(db'[id]) = Immutable(db[id]) ]_vars

\* both quotes went through payment processing, one to ChannelOpen and one to
\* Paid, and carry the amounts computed at creation
C21_Witness ==
    /\ DOMAIN db = {1, 2}
    /\ db[1].state = "ChannelOpen"
    /\ db[1].channel_id # None
    /\ db[1].channel_size_sats = 3000
    /\ db[1].push_amount_sats = Some(2)
    /\ db[1].expected_payment_sats = 3005
    /\ db[2].state = "Paid"
    /\ db[2].channel_size_sats = 1000
    /\ db[2].expected_payment_sats = 1002

(* C22: a quote enters the store in state Unpaid with channel_id None; a
   stored record changes only in a store write of a POST /payment handler;
   GET /info, GET /quote/{id} and POST /channel-quote leave every stored
   record as it was; no step removes a quote from the store. *)
C22_LifecycleOwnership ==
    /\ [][ /\ DOMAIN db \subseteq DOMAIN db'
           /\ \A id \in DOMAIN db' \ DOMAIN db :
                db'[id].state = "Unpaid" /\ db'[id].channel_id = None
           /\ (\E id \in DOMAIN db : db'[id] # db[id])
              => \E h \in Procs : UpdateQuoteState(h) \/ AddQuote(h) ]_vars
    /\ [][ ( \/ get_lsp_info
             \/ \E id_text \in IdStrings : get_quote_state(id_text)
             \/ \E payload \in ChannelQuoteRequest : post_channel_quote(payload) )
           => \A id \in DOMAIN db : db'[id] = db[id] ]_vars

\* with one quote taken to ChannelOpen by a payment, a second quote has just
\* been created Unpaid
C22_Witness ==
    /\ last.op = "channel-quote"
    /\ last.res.kind = "Ok"
    /\ last.res.payment_id = 2
    /\ DOMAIN db = {1, 2}
    /\ db[1].state = "ChannelOpen"
    /\ db[2].state = "Unpaid"
    /\ db[2].channel_id = None

(* C23: no stored quote is ever in state ChannelExpired. *)
C23_ChannelExpiredUnreachable ==
    \A id \in DOMAIN db : db[id].state # "ChannelExpired"

\* quotes have reached the end states of payment processing: one is
\* ChannelOpen, one is Paid, and no handler is in flight
C23_Witness ==
    /\ DOMAIN db = {1, 2}
    /\ db[1].state = "Paid"
    /\ db[2].state = "ChannelOpen"
    /\ \A h \in Procs : pc[h] = "ready"

(* C24: a POST /payment handler that returns from one of its store writes
   (the ChannelPending update, the final upsert) without success returns
   DatabaseError, and that step leaves the store, the node's channels and the
   counts of redemptions and channel opens as they were: the record keeps its
   value and no later step of the request runs. *)
C24_StoreFailureFatal ==
    /\ [][ \A h \in Procs :
             ( /\ UpdateQuoteState(h) \/ AddQuote(h)
               /\ pc'[h] = "ready"
               /\ last'.res # OkUnit )
             => /\ last'.op = "payment"
                /\ last'.res = DatabaseError
                /\ UNCHANGED Effects ]_vars
    /\ [][ (Responds /\ last'.op = "payment" /\ last'.res = DatabaseError)
           => /\ UNCHANGED Effects
              /\ \E h \in Procs :
                   /\ pc[h] \in {"update_quote_state", "add_quote"}
                   /\ pc'[h] = "ready" ]_vars

\* the final upsert failed after the channel open was called: the request
\* ended with DatabaseError and the record is still the ChannelPending one
C24_Witness ==
    /\ last.op = "payment"
    /\ last.res = DatabaseError
    /\ DOMAIN db = {1}
    /\ db[1].state = "ChannelPending"
    /\ opens[1] = 1
    /\ \A h \in Procs : pc[h] = "ready"

-----------------------------------------------------------------------------
(* C26: in every reachable state of the store, a quote that is ChannelOpen
   has a channel_id, and a quote that is Unpaid, ChannelPending or Paid has
   channel_id None. *)
C26_StateHandleConsistent ==
    \A id \in DOMAIN db :
        db[id].channel_id # None <=> db[id].state = "ChannelOpen"

(* C27: once a redemption for a quote has succeeded and no request for the
   quote is in flight any more, the quote's persisted state is not Unpaid. *)
C27_CapturedFundsRecorded ==
    \A id \in DOMAIN db :
        (redeemed[id] >= 1 /\ ~InFlight(id)) => db[id].state # "Unpaid"

-----------------------------------------------------------------------------
(* Payments for quotes with a push amount *)

\* a push amount whose value in millisatoshi fits the u64, and the smallest
\* one whose value does not
PushRequests ==
    { Request(1000, Some(2)), Request(1000, Some(U64_MAX \div 1000 + 1)) }

NextPush ==
    \/ \E payload \in PushRequests : post_channel_quote(payload)
    \/ \E h \in Procs : \E payload \in ShutdownPayloads : Receive(h, payload)
    \/ \E h \in Procs : Continue(h)

SpecPush ==
    /\ Init
    /\ [][NextPush]_vars
    /\ \A h \in Procs : WF_vars(Continue(h))

(* C28: the channel-open call of a handler does not abort the handler, and
   the channel the node opens has the node_pubkey, addr and channel_size_sats
   of the stored quote and a push amount in millisatoshi of
   push_amount_sats * 1000, None when the quote has no push amount. *)
C28_OpenCallArguments ==
    [][ \A h \in Procs :
          OpenChannel(h)
          => LET q == db[QuoteId(h)]
             IN  /\ pc'[h] = "add_quote"
                 /\ \A c \in channels' \ channels :
                      /\ c.node_pubkey = q.node_pubkey
                      /\ c.addr = q.addr
                      /\ c.channel_size_sats = q.channel_size_sats
                      /\ c.push_msat = IF q.push_amount_sats = None THEN None
                                       ELSE Some(Unwrap(q.push_amount_sats) * 1000) ]_vars

-----------------------------------------------------------------------------
Pending(id) == id \in DOMAIN db /\ db[id].state = "ChannelPending"
Settled(id) == id \in DOMAIN db /\ db[id].state \in {"ChannelOpen", "Paid"}

\* a store write of a payment handler has failed
StoreFailed == last.op = "payment" /\ last.res = DatabaseError

\* every quote that is ChannelPending is eventually ChannelOpen or Paid, and
\* whenever no handler is in flight no quote is ChannelPending
PendingSettles ==
    /\ \A id \in Uuids : Pending(id) ~> Settled(id)
    /\ []((\A h \in Procs : pc[h] = "ready") => \A id \in Uuids : ~Pending(id))

(* C25: in a behaviour in which the process does not crash and no store
   write of a payment handler fails, every quote that enters ChannelPending
   eventually reaches ChannelOpen or Paid, whatever the interleaving of the
   submissions for it, and no completed set of handlers leaves a quote
   ChannelPending. *)
C25_ChannelPendingTransient ==
    <>StoreFailed \/ PendingSettles

====
